---- MODULE Spec2Model ----
(***************************************************************************)
(* remark-gitlab-artifact (src/src/index.js): a remark transformer that    *)
(* scans the link nodes of an MDAST tree for titles carrying the marker    *)
(* `gitlab-artifact|`, downloads one artifact per matched link from the    *)
(* Gitlab API, extracts it next to the document and reports into the       *)
(* vFile's messages.                                                       *)
(*                                                                         *)
(* Strings are sequences of tokens.  The word `gitlab-artifact` and the    *)
(* delimiter `|` are tokens of their own; every other token is an opaque   *)
(* chunk of characters holding neither.  String concatenation is \o.       *)
(*                                                                         *)
(* JavaScript runs the code between two suspension points (await, stream   *)
(* events) without interleaving, so one action is one such stretch of      *)
(* code: the call of the transformer up to its await, the settling of a    *)
(* fetch, the continuation of getArtifact, the continuation of a task      *)
(* after getArtifact, an event of a stream (whose listener settles the     *)
(* promise of extractArtifact), the continuation of a task after           *)
(* extractArtifact, and the continuation of the transformer.  A settled    *)
(* promise runs its continuation in a later job, so other stretches may    *)
(* run in between; the order of the jobs of different promise chains       *)
(* depends on the promise library and the engine and is left open.  The    *)
(* host may call the transformer again at any time, also while an earlier  *)
(* invocation is waiting.                                                  *)
(***************************************************************************)
EXTENDS Naturals, Sequences, FiniteSets

\* ------------------------------------------------------------------ bounds

\* Link nodes of a document.
MaxLinks == 2

\* Invocations of the transformer on one document.
MaxRuns == 2

\* Tasks launched on one document, over all its invocations.
MaxTasks == 3

\* ----------------------------------------------------------------- strings

PLUGIN_NAME == <<"remark-gitlab-artifact">>

\* The word of the marker and the delimiter, as tokens.
GA == "gitlab-artifact"
PIPE == "|"

\* mdast: a link without a title has title null.
NoTitle == <<"null">>

\* What a template literal renders for a missing array element.
Undefined == <<"undefined">>

\* title.indexOf('gitlab-artifact|') !== -1
HasMarker(title) ==
    \E i \in 1..Len(title) :
        /\ i + 1 <= Len(title)
        /\ title[i] = GA
        /\ title[i + 1] = PIPE

\* Mutant: the marker test is dropped, every titled link is pushed.
IsArtifactTitle_AnyTitle(title) ==
    ~ (title = NoTitle \/ title = << >>)

\* The negation of the visitor's early return: the node is pushed.
IsArtifactTitle(title) ==
    ~ (title = NoTitle \/ title = << >> \/ ~ HasMarker(title))

\* Index of the first delimiter of s, 0 when there is none.
FirstPipe(s) ==
    IF \E i \in 1..Len(s) : s[i] = PIPE
    THEN CHOOSE i \in 1..Len(s) :
             /\ s[i] = PIPE
             /\ \A j \in 1..(i - 1) : s[j] # PIPE
    ELSE 0

RECURSIVE Split(_)
\* title.split('|'): the segments between the delimiters, empty ones kept.
Split(s) ==
    IF FirstPipe(s) = 0
    THEN << s >>
    ELSE << SubSeq(s, 1, FirstPipe(s) - 1) >>
             \o Split(SubSeq(s, FirstPipe(s) + 1, Len(s)))

\* Array destructuring: element k (1-based here), undefined past the end.
Element(parts, k) ==
    IF k <= Len(parts) THEN parts[k] ELSE Undefined

\* const [, projectId, jobName] = title.split('|')
ProjectIdOf(title) == Element(Split(title), 2)
JobNameOf(title) == Element(Split(title), 3)

\* Mutant: the token is sent as the private_token query parameter.
Url_WithToken(apiBase, token, projectId, jobName) ==
    apiBase \o <<"/api/v4/projects/">> \o projectId
            \o <<"/jobs/artifacts/master/download?job=">> \o jobName
            \o <<"&private_token=">> \o token

\* The request URL getArtifact(apiBase, token, projectId, jobName) builds:
\* the token is no part of it.
Url(apiBase, token, projectId, jobName) ==
    apiBase \o <<"/api/v4/projects/">> \o projectId
            \o <<"/jobs/artifacts/master/download?job=">> \o jobName

\* Mutant: only client and server errors count as failures.
responseOk_Below400(status) ==
    status < 400

\* The negation of getArtifact's test `response.status !== 200`.
responseOk(status) ==
    status = 200

\* The message of the Error getArtifact throws.
FetchFailureMessage(statusText, url) ==
    statusText \o <<" from ">> \o url \o <<".">>

\* Mutant: the two fields are swapped in the text.
InfoMessage_Swapped(projectId, jobName) ==
    <<"artifacts fetched from ">> \o jobName \o <<" ">> \o projectId

\* The text of the info entry.
InfoMessage(projectId, jobName) ==
    <<"artifacts fetched from ">> \o projectId \o <<" ">> \o jobName

\* ------------------------------------------------------------------ inputs

\* Titles a link node may carry: none, empty, plain text, a well-formed
\* reference, a reference with one trailing segment, and a reference of four
\* fields whose marker is the second.
Titles ==
    { NoTitle,
      << >>,
      <<"docs">>,
      <<GA, PIPE, "1095", PIPE, "build:docs">>,
      <<GA, PIPE, "onlyOneField">>,
      <<"a", PIPE, GA, PIPE, "7", PIPE, "pages">> }

\* A title that is no string (a number): title.indexOf is not a function.
NonString == <<"#5">>

\* vFile.data.destinationDir: absent, empty, or set.
DestinationDirs == { Undefined, << >>, <<"/out">> }

\* vFile.dirname
Dirname == <<"/docs">>

\* options.apiBase, options.gitlabApiToken
ApiBase == <<"https://src.temando.io">>
Token == <<"secret">>

\* Tokens two runs may differ in, and the token of the twin run.
Tokens == { Token, <<"s3cr3t">> }

OtherToken(token) == CHOOSE t \in Tokens : t # token

\* Status codes a response carries, with their status texts.
Statuses == { 200, 204, 404 }

StatusText(status) ==
    CASE status = 200 -> <<"OK">>
      [] status = 204 -> <<"No Content">>
      [] status = 404 -> <<"Not Found">>

\* The message of the error a rejected fetch carries (a transport error):
\* the fetch library quotes the URL it was called with.
TransportError(url) ==
    <<"request to ">> \o url \o <<" failed, reason: socket hang up">>

\* The message of the error an 'error' event of the unzip stream carries.
UnzipError == <<"invalid archive">>

\* The message of the error a throwing vFile.info carries.
InfoError == <<"info failed">>

\* -------------------------------------------------------------------- state

VARIABLES
    ast,        \* the link nodes of the tree, in visiting order
    data,       \* vFile.data.destinationDir
    messages,   \* vFile.messages
    requests,   \* the calls of fetch, in order
    disk,       \* what was extracted: {[path, artifact]}
    host,       \* the host process: "running", "crashed"
    run,        \* invocations of the transformer so far
    pc,         \* per invocation, the transformer: "awaiting", "done"
    nodes,      \* per invocation, visitLink's nodes: indices of matched nodes
    tasks,      \* per invocation and node, the async callback of nodes.map
    result,     \* per invocation, what the transformer handed back
    ast0,       \* the tree when the latest invocation began
    messages0,  \* Len(messages) when the latest invocation began
    requests0,  \* Len(requests) when the latest invocation began
    solo,       \* whether the latest invocation began with no other in flight
    options,    \* the options of the plugin: apiBase and gitlabApiToken
    twin        \* vFile.messages of the twin: the same document, responses and
                \* schedule, under the other token

vars ==
    << ast, data, messages, requests, disk, host, run, pc, nodes, tasks,
       result, ast0, messages0, requests0, solo, options, twin >>

\* A node of the tree: its title and its source position.
Node(title, k) == [title |-> title, position |-> k]

\* The trees of n link nodes with titles from T.
Trees(T, n) ==
    { [k \in 1..n |-> Node(f[k], k)] : f \in [1..n -> T] }

\* A task that was not launched.  state is the promise of the async callback
\* ("fetching" and "extracting" while it is pending at one of its awaits),
\* fetch the promise of fetch and status the response's status code, got the
\* promise of getArtifact, promise the promise of extractArtifact, artifact
\* the response body ("piped" once it is piped into the unzip stream,
\* "errored" once it has emitted 'error').
NoTask ==
    [state |-> "none", projectId |-> << >>, jobName |-> << >>,
     fetch |-> "none", status |-> 0, got |-> "none",
     destinationDir |-> << >>, promise |-> "none", artifact |-> "none"]

NoResult ==
    [promise |-> "none", via |-> "none", error |-> "none", next |-> "none",
     tree |-> << >>]

InitWith(T, D, K) ==
    /\ ast \in UNION { Trees(T, n) : n \in 0..MaxLinks }
    /\ data \in D
    /\ options \in { [apiBase |-> ApiBase, gitlabApiToken |-> t] : t \in K }
    /\ twin = << >>
    /\ messages = << >>
    /\ requests = << >>
    /\ disk = {}
    /\ host = "running"
    /\ run = 0
    /\ pc = << >>
    /\ nodes = << >>
    /\ tasks = << >>
    /\ result = << >>
    /\ ast0 = ast
    /\ messages0 = 0
    /\ requests0 = 0
    /\ solo = TRUE

\* Titles of the documents on which the runs are explored: no title, plain
\* text, and a well-formed reference.
DocTitles ==
    { NoTitle, <<"docs">>, <<GA, PIPE, "1095", PIPE, "build:docs">> }

\* The document as remark-parse produces it, every title a string or null,
\* with well-formed references.
Init == InitWith(DocTitles, DestinationDirs, { Token })

\* ------------------------------------------------------------------ helpers

\* Mutant: the override of the document's metadata is ignored.
getDestinationDir_NoOverride ==
    Dirname

\* Mutant: the override is honoured for the first archive only; once
\* something was extracted the document's own directory is used.
getDestinationDir_FirstOnly ==
    IF disk = {} /\ data # Undefined /\ data # << >> THEN data ELSE Dirname

\* getDestinationDir(vFile)
getDestinationDir ==
    IF data # Undefined /\ data # << >> THEN data ELSE Dirname

\* The visit of the tree: the indices of the link nodes the visitor pushes,
\* in visiting order.
visit(tree) ==
    LET pushed(k) == IsArtifactTitle(tree[k].title)
    IN  SelectSeq([k \in 1..Len(tree) |-> k], pushed)

\* Whether the visitor throws: a truthy title without indexOf.
visitThrows(tree) ==
    \E k \in 1..Len(tree) : tree[k].title = NonString

Range(s) == { s[i] : i \in 1..Len(s) }

\* The request getArtifact makes for node k.  `node` is no part of the
\* request: it records which task made it.
Request(tree, k) ==
    [url |-> Url(options.apiBase, options.gitlabApiToken,
                 ProjectIdOf(tree[k].title), JobNameOf(tree[k].title)),
     headers |-> [PRIVATE_TOKEN |-> options.gitlabApiToken],
     node |-> k]

\* The async callback of nodes.map for node k, run up to its first await:
\* the title is split, getArtifact is called and runs up to its own await,
\* where fetch is called.
Launch(tree, k) ==
    [NoTask EXCEPT !.state = "fetching",
                   !.fetch = "pending",
                   !.got = "pending",
                   !.projectId = ProjectIdOf(tree[k].title),
                   !.jobName = JobNameOf(tree[k].title)]

\* Mutant: getArtifact returns the body whatever the response.
getArtifact_AnyResponse(fetch, status) ==
    IF fetch = "resolved" THEN "resolved" ELSE "rejected"

\* getArtifact after its await: how its promise settles.  A rejection of
\* fetch is rethrown, a status other than 200 throws, the body is returned
\* otherwise.
getArtifact(fetch, status) ==
    IF fetch = "resolved" /\ responseOk(status) THEN "resolved" ELSE "rejected"

\* The message of the error the promise of
\* getArtifact(apiBase, token, projectId, jobName) is rejected with, for the
\* task t that called it.
getArtifactError(apiBase, token, t) ==
    IF t.fetch = "rejected"
    THEN TransportError(Url(apiBase, token, t.projectId, t.jobName))
    ELSE FetchFailureMessage(StatusText(t.status),
                             Url(apiBase, token, t.projectId, t.jobName))

\* An entry of vFile.messages, appended by vFile.info or vFile.message.
Entry(method, text, position) ==
    [method |-> method, message |-> text, position |-> position,
     source |-> PLUGIN_NAME]

\* Which calls of the report throw in one stretch of a task's code.
Faults == [info : BOOLEAN, message : BOOLEAN]
NoFault == [info |-> FALSE, message |-> FALSE]

\* What the continuation does when it is called: it returns a value, throws,
\* returns a promise that is rejected, or returns a promise that stays
\* pending.
NextOutcomes == { "returns", "throws", "rejects", "pends" }

\* Mutant: the join settles with the first task that does (Promise.race).
visitLink_Any(r) ==
    IF nodes[r] = << >> THEN "resolved"
    ELSE IF \E k \in Range(nodes[r]) : tasks[r][k].state = "rejected"
    THEN "rejected"
    ELSE IF \E k \in Range(nodes[r]) : tasks[r][k].state = "fulfilled"
    THEN "resolved"
    ELSE "pending"

\* The promise visitLink returned to invocation r: Promise.resolve(ast)
\* without nodes, Promise.all of the tasks otherwise (rejected as soon as one
\* task is, resolved once all are fulfilled).
visitLink(r) ==
    IF nodes[r] = << >> THEN "resolved"
    ELSE IF \E k \in Range(nodes[r]) : tasks[r][k].state = "rejected"
    THEN "rejected"
    ELSE IF \A k \in Range(nodes[r]) : tasks[r][k].state = "fulfilled"
    THEN "resolved"
    ELSE "pending"

\* The promise of the async transformer when the stretch that called next
\* ends: fulfilled with a value next returned, rejected when next threw, and
\* pending when next returned a promise, which it adopts in a later job.
Follows(nx) ==
    CASE nx = "returns" -> "fulfilled"
      [] nx = "throws" -> "rejected"
      [] nx = "rejects" -> "pending"
      [] nx = "pends" -> "pending"

\* What the transformer hands back once visitLink has settled or thrown:
\* the error is swallowed; when next is a function it is called with a null
\* error and the tree, outside the try block, and the transformer's promise
\* follows what it does; otherwise the tree is returned.
transformer(settled, hasNext, nx) ==
    IF hasNext
    THEN [promise |-> Follows(nx), via |-> "next", error |-> "null",
          next |-> nx, tree |-> ast]
    ELSE [promise |-> "fulfilled", via |-> "return", error |-> "none",
          next |-> "none", tree |-> ast]

\* Mutant: the report loses an update, a new entry replaces the last one of
\* the invocation.
catch_Overwrite(report, k, error, f) ==
    IF f.message
    THEN [state |-> "rejected", messages |-> report]
    ELSE [state |-> "fulfilled",
          messages |->
              IF Len(report) > messages0
              THEN [report EXCEPT ![Len(report)] =
                        Entry("message", error, ast[k].position)]
              ELSE Append(report, Entry("message", error, ast[k].position))]

\* The catch block of a task: vFile.message(error, position, PLUGIN_NAME).
\* The values the task's state and the report take.
catch(report, k, error, f) ==
    IF f.message
    THEN [state |-> "rejected", messages |-> report]
    ELSE [state |-> "fulfilled",
          messages |-> Append(report, Entry("message", error, ast[k].position))]

\* Mutant: the titles of all nodes are cleared.
clearTitle_All(k) ==
    [j \in 1..Len(ast) |-> [ast[j] EXCEPT !.title = << >>]]

\* Mutant: the title is not cleared.
clearTitle_Keep(k) ==
    ast

\* node.title = ''
clearTitle(k) ==
    [ast EXCEPT ![k].title = << >>]

\* Mutant: the success is reported with vFile.message.
success_AsMessage(report, r, k, f) ==
    [state |-> "fulfilled",
     messages |-> Append(report,
         Entry("message", InfoMessage(tasks[r][k].projectId, tasks[r][k].jobName),
               ast[k].position))]

\* The end of the try block of a task, after extractArtifact resolved and
\* the title was cleared: vFile.info is called; a throw of it lands in the
\* catch block.
success(report, r, k, f) ==
    IF f.info
    THEN catch(report, k, InfoError, f)
    ELSE [state |-> "fulfilled",
          messages |-> Append(report,
              Entry("info", InfoMessage(tasks[r][k].projectId, tasks[r][k].jobName),
                    ast[k].position))]

\* Invocation r has completed and none of its tasks is still running.
Quiet(r) ==
    /\ pc[r] = "done"
    /\ \A k \in Range(nodes[r]) : tasks[r][k].state \in {"fulfilled", "rejected"}

\* The tasks launched so far.
RECURSIVE Launched(_)
Launched(r) ==
    IF r = 0 THEN 0 ELSE Len(nodes[r]) + Launched(r - 1)

\* ------------------------------------------------------------------ actions

\* The host calls the transformer, at any time: visitLink scans the tree and
\* launches one task per matched node, each running up to its fetch; the
\* transformer then awaits visitLink's promise.
Transformer ==
    /\ host = "running"
    /\ run < MaxRuns
    /\ ~ visitThrows(ast)
    /\ Launched(run) + Len(visit(ast)) <= MaxTasks
    /\ LET ns == visit(ast)
       IN  /\ nodes' = Append(nodes, ns)
           /\ tasks' = Append(tasks,
                          [k \in 1..Len(ast) |->
                              IF k \in Range(ns) THEN Launch(ast, k) ELSE NoTask])
           /\ requests' = requests \o [i \in 1..Len(ns) |-> Request(ast, ns[i])]
    /\ pc' = Append(pc, "awaiting")
    /\ result' = Append(result, NoResult)
    /\ run' = run + 1
    /\ ast0' = ast
    /\ messages0' = Len(messages)
    /\ requests0' = Len(requests)
    /\ solo' = \A r \in 1..run : Quiet(r)
    /\ UNCHANGED << ast, data, messages, disk, host, options, twin >>

\* The transformer is called and the visitor throws: visitLink throws before
\* it launches a task, the catch swallows it and the transformer hands back
\* at once.
TransformerScanThrows(nx) ==
    /\ host = "running"
    /\ run < MaxRuns
    /\ visitThrows(ast)
    /\ nodes' = Append(nodes, << >>)
    /\ tasks' = Append(tasks, [k \in 1..Len(ast) |-> NoTask])
    /\ \E hasNext \in BOOLEAN :
           result' = Append(result, transformer("threw", hasNext, nx))
    /\ pc' = Append(pc, "done")
    /\ run' = run + 1
    /\ ast0' = ast
    /\ messages0' = Len(messages)
    /\ requests0' = Len(requests)
    /\ solo' = \A r \in 1..run : Quiet(r)
    /\ UNCHANGED << ast, data, messages, requests, disk, host, options, twin >>

\* visitLink's promise has settled: invocation r resumes after its await and
\* hands back.
TransformerResume(r, nx) ==
    /\ host = "running"
    /\ r <= run
    /\ pc[r] = "awaiting"
    /\ visitLink(r) # "pending"
    /\ \E hasNext \in BOOLEAN :
           result' = [result EXCEPT ![r] = transformer(visitLink(r), hasNext, nx)]
    /\ pc' = [pc EXCEPT ![r] = "done"]
    /\ UNCHANGED << ast, data, messages, requests, disk, host, run, nodes,
                    tasks, ast0, messages0, requests0, solo, options, twin >>

\* The promise of invocation r adopts the rejected promise next returned.
TransformerAdopts(r) ==
    /\ host = "running"
    /\ r <= run
    /\ pc[r] = "done"
    /\ result[r].next = "rejects"
    /\ result[r].promise = "pending"
    /\ result' = [result EXCEPT ![r].promise = "rejected"]
    /\ UNCHANGED << ast, data, messages, requests, disk, host, run, pc, nodes,
                    tasks, ast0, messages0, requests0, solo, options, twin >>

\* The fetch of task k of invocation r resolves with a response.
FetchResponds(r, k, status) ==
    /\ host = "running"
    /\ r <= run
    /\ tasks[r][k].fetch = "pending"
    /\ tasks' = [tasks EXCEPT ![r][k].fetch = "resolved",
                              ![r][k].status = status]
    /\ UNCHANGED << ast, data, messages, requests, disk, host, run, pc, nodes,
                    result, ast0, messages0, requests0, solo, options, twin >>

\* The fetch of task k rejects (a transport error).
FetchRejects(r, k) ==
    /\ host = "running"
    /\ r <= run
    /\ tasks[r][k].fetch = "pending"
    /\ tasks' = [tasks EXCEPT ![r][k].fetch = "rejected"]
    /\ UNCHANGED << ast, data, messages, requests, disk, host, run, pc, nodes,
                    result, ast0, messages0, requests0, solo, options, twin >>

\* getArtifact resumes after `await fetch`: it reads the status and returns
\* the body or throws, which settles its promise.
GetArtifactResumes(r, k) ==
    /\ host = "running"
    /\ r <= run
    /\ tasks[r][k].fetch \in {"resolved", "rejected"}
    /\ tasks[r][k].got = "pending"
    /\ tasks' = [tasks EXCEPT ![r][k].got =
                     getArtifact(tasks[r][k].fetch, tasks[r][k].status)]
    /\ UNCHANGED << ast, data, messages, requests, disk, host, run, pc, nodes,
                    result, ast0, messages0, requests0, solo, options, twin >>

\* The task resumes after `await getArtifact`.  With the body it resolves the
\* destination and calls extractArtifact, which pipes the body into the
\* unzip stream; with an error it runs its catch block.
TaskAfterFetch(r, k, f) ==
    /\ host = "running"
    /\ r <= run
    /\ tasks[r][k].state = "fetching"
    /\ tasks[r][k].got \in {"resolved", "rejected"}
    /\ IF tasks[r][k].got = "rejected"
       THEN LET c == catch(messages, k,
                           getArtifactError(options.apiBase, options.gitlabApiToken,
                                            tasks[r][k]), f)
                c2 == catch(twin, k,
                            getArtifactError(options.apiBase,
                                             OtherToken(options.gitlabApiToken),
                                             tasks[r][k]), f)
            IN  /\ tasks' = [tasks EXCEPT ![r][k].state = c.state]
                /\ messages' = c.messages
                /\ twin' = c2.messages
       ELSE /\ tasks' = [tasks EXCEPT ![r][k].state = "extracting",
                                      ![r][k].destinationDir = getDestinationDir,
                                      ![r][k].promise = "pending",
                                      ![r][k].artifact =
                                          IF tasks[r][k].artifact = "errored"
                                          THEN "errored" ELSE "piped"]
            /\ UNCHANGED << messages, twin >>
    /\ UNCHANGED << ast, data, requests, disk, host, run, pc, nodes, result,
                    ast0, messages0, requests0, solo, options >>

\* The unzip stream of task k emits 'finish': the archive is on disk and
\* resolve is called, which a settled promise ignores.
UnzipFinish(r, k) ==
    /\ host = "running"
    /\ r <= run
    /\ tasks[r][k].promise # "none"
    /\ disk' = disk \cup {[path |-> tasks[r][k].destinationDir, artifact |-> k]}
    /\ tasks' = [tasks EXCEPT ![r][k].promise =
                     IF @ = "pending" THEN "resolved" ELSE @]
    /\ UNCHANGED << ast, data, messages, requests, host, run, pc, nodes,
                    result, ast0, messages0, requests0, solo, options, twin >>

\* The unzip stream of task k emits 'error': reject is called, which a
\* settled promise ignores.
UnzipErrors(r, k) ==
    /\ host = "running"
    /\ r <= run
    /\ tasks[r][k].promise # "none"
    /\ tasks' = [tasks EXCEPT ![r][k].promise =
                     IF @ = "pending" THEN "rejected" ELSE @]
    /\ UNCHANGED << ast, data, messages, requests, disk, host, run, pc, nodes,
                    result, ast0, messages0, requests0, solo, options, twin >>

\* The body of the response of task k (the artifact stream) emits 'error',
\* at any time after the response arrived: before it is piped, during the
\* extraction or after it.  The listener of line 64 sits on what pipe
\* returns, the unzip stream, so no listener of this code ever hears the
\* event and the promise is not settled.  An 'error' event without a
\* listener is thrown by the emitter: the exception is uncaught and ends the
\* host process, unless the host or the fetch library listens too.
ArtifactErrors(r, k, uncaught) ==
    /\ host = "running"
    /\ r <= run
    /\ tasks[r][k].fetch = "resolved"
    /\ tasks[r][k].artifact # "errored"
    /\ tasks' = [tasks EXCEPT ![r][k].artifact = "errored"]
    /\ host' = IF uncaught THEN "crashed" ELSE host
    /\ UNCHANGED << ast, data, messages, requests, disk, run, pc, nodes,
                    result, ast0, messages0, requests0, solo, options, twin >>

\* The task resumes after `await extractArtifact`: after a success it clears
\* the title and reports, after a failure it runs its catch block.
TaskAfterExtract(r, k, f) ==
    /\ host = "running"
    /\ r <= run
    /\ tasks[r][k].state = "extracting"
    /\ tasks[r][k].promise \in {"resolved", "rejected"}
    /\ IF tasks[r][k].promise = "resolved"
       THEN LET c == success(messages, r, k, f)
                c2 == success(twin, r, k, f)
            IN  /\ ast' = clearTitle(k)
                /\ tasks' = [tasks EXCEPT ![r][k].state = c.state]
                /\ messages' = c.messages
                /\ twin' = c2.messages
       ELSE LET c == catch(messages, k, UnzipError, f)
                c2 == catch(twin, k, UnzipError, f)
            IN  /\ tasks' = [tasks EXCEPT ![r][k].state = c.state]
                /\ messages' = c.messages
                /\ twin' = c2.messages
                /\ UNCHANGED ast
    /\ UNCHANGED << data, requests, disk, host, run, pc, nodes, result,
                    ast0, messages0, requests0, solo, options >>

Next ==
    \/ Transformer
    \/ \E r \in 1..MaxRuns : TransformerResume(r, "returns")
    \/ \E r \in 1..MaxRuns : \E k \in 1..Len(ast) : \E status \in Statuses :
           FetchResponds(r, k, status)
    \/ \E r \in 1..MaxRuns : \E k \in 1..Len(ast) : FetchRejects(r, k)
    \/ \E r \in 1..MaxRuns : \E k \in 1..Len(ast) : GetArtifactResumes(r, k)
    \/ \E r \in 1..MaxRuns : \E k \in 1..Len(ast) : TaskAfterFetch(r, k, NoFault)
    \/ \E r \in 1..MaxRuns : \E k \in 1..Len(ast) : UnzipFinish(r, k)
    \/ \E r \in 1..MaxRuns : \E k \in 1..Len(ast) : UnzipErrors(r, k)
    \/ \E r \in 1..MaxRuns : \E k \in 1..Len(ast) : \E uncaught \in BOOLEAN :
           ArtifactErrors(r, k, uncaught)
    \/ \E r \in 1..MaxRuns : \E k \in 1..Len(ast) : TaskAfterExtract(r, k, NoFault)

\* The program with a report whose info and message return and a
\* continuation that returns, on a tree whose titles are strings or null.
Spec == Init /\ [][Next]_vars

\* ------------------------------------------------------------------ scanner

\* Documents with titles of every shape, written next to the override.
InitScan == InitWith(Titles, { <<"/out">> }, { Token })

SpecScan == InitScan /\ [][Next]_vars

\* ------------------------------------------------------------------- faults

\* Titles of the documents on which faults are explored.
FaultTitles ==
    { <<GA, PIPE, "1095", PIPE, "build:docs">>, NonString }

InitFault == InitWith(FaultTitles, { <<"/out">> }, { Token })

\* Status codes of the responses on which faults are explored.
FaultStatuses == { 200, 404 }

\* As Next, and the visitor may throw, vFile.info and vFile.message may throw
\* instead of appending, and the continuation may throw or return a promise.
NextFault ==
    \/ Transformer
    \/ \E nx \in NextOutcomes : TransformerScanThrows(nx)
    \/ \E r \in 1..MaxRuns : \E nx \in NextOutcomes : TransformerResume(r, nx)
    \/ \E r \in 1..MaxRuns : TransformerAdopts(r)
    \/ \E r \in 1..MaxRuns : \E k \in 1..Len(ast) : \E status \in FaultStatuses :
           FetchResponds(r, k, status)
    \/ \E r \in 1..MaxRuns : \E k \in 1..Len(ast) : FetchRejects(r, k)
    \/ \E r \in 1..MaxRuns : \E k \in 1..Len(ast) : GetArtifactResumes(r, k)
    \/ \E r \in 1..MaxRuns : \E k \in 1..Len(ast) : \E f \in Faults :
           TaskAfterFetch(r, k, f)
    \/ \E r \in 1..MaxRuns : \E k \in 1..Len(ast) : UnzipFinish(r, k)
    \/ \E r \in 1..MaxRuns : \E k \in 1..Len(ast) : UnzipErrors(r, k)
    \/ \E r \in 1..MaxRuns : \E k \in 1..Len(ast) : \E uncaught \in BOOLEAN :
           ArtifactErrors(r, k, uncaught)
    \/ \E r \in 1..MaxRuns : \E k \in 1..Len(ast) : \E f \in Faults :
           TaskAfterExtract(r, k, f)

SpecFault == InitFault /\ [][NextFault]_vars

\* ------------------------------------------------------------------- tokens

\* Documents of plain and well-formed titles, run under either token.
InitToken == InitWith(DocTitles, { <<"/out">> }, Tokens)

SpecToken == InitToken /\ [][Next]_vars

\* ----------------------------------------------------------------- liveness

\* Titles of the documents on which termination is explored.
LiveTitles ==
    { <<"docs">>, <<GA, PIPE, "1095", PIPE, "build:docs">> }

InitLive == InitWith(LiveTitles, { <<"/out">> }, { Token })

\* The code of task k of invocation r that is ready to run: a continuation
\* after an await whose promise has settled.
Continuation(r, k) ==
    /\ k <= Len(ast)
    /\ \/ GetArtifactResumes(r, k)
       \/ TaskAfterFetch(r, k, NoFault)
       \/ TaskAfterExtract(r, k, NoFault)

\* A continuation whose promise has settled is a job of the event loop, which
\* runs it.
SpecLive ==
    /\ InitLive
    /\ [][Next]_vars
    /\ \A r \in 1..MaxRuns : WF_vars(TransformerResume(r, "returns"))
    /\ \A r \in 1..MaxRuns : \A k \in 1..MaxLinks : WF_vars(Continuation(r, k))

\* ------------------------------------------------------------------- claims

\* s is a prefix of t.
IsPrefix(s, t) ==
    /\ Len(s) <= Len(t)
    /\ SubSeq(t, 1, Len(s)) = s

\* sub occurs in s as a contiguous run of tokens.
Contains(s, sub) ==
    \E i \in 0..(Len(s) - Len(sub)) : SubSeq(s, i + 1, i + Len(sub)) = sub

\* The link nodes of a tree whose title carries the marker `gitlab-artifact|`.
Matching(tree) ==
    { k \in 1..Len(tree) :
        /\ tree[k].title # NoTitle
        /\ \E i \in 1..(Len(tree[k].title) - 1) :
               tree[k].title[i] = "gitlab-artifact" /\ tree[k].title[i + 1] = "|" }

\* The claims about one run of the transformer are stated for the latest
\* invocation, when it began with every earlier invocation completed and all
\* their tasks ended, so that no other invocation works on the tree and on
\* the report during it.
OneRun == run >= 1 /\ solo

\* The entries appended for node k by `method` since the latest invocation
\* began.
NewEntries(k, method) ==
    { i \in (messages0 + 1)..Len(messages) :
        /\ messages[i].position = ast0[k].position
        /\ messages[i].method = method }

\* The requests the latest invocation made for node k.
NewRequests(k) ==
    { i \in (requests0 + 1)..Len(requests) : requests[i].node = k }

\* The directory the document's artifacts belong in: the override of the
\* document's metadata when there is one, its own directory otherwise.
ResolvedDir ==
    IF data = <<"/out">> THEN <<"/out">> ELSE <<"/docs">>

\* C1: in an invocation on a document with no link title carrying the
\* marker, no fetch request is made, no node changes and no entry is appended
\* to the report.
C1_NoMatchNoEffect ==
    (OneRun /\ Matching(ast0) = {}) =>
        /\ Len(requests) = requests0
        /\ ast = ast0
        /\ Len(messages) = messages0

\* C1 witness: an invocation completed on a document of two links, one with a
\* plain title and one without a title.
C1_Witness ==
    /\ OneRun
    /\ pc[run] = "done"
    /\ Len(ast) = 2
    /\ Matching(ast0) = {}
    /\ ast[1].title = <<"docs">>
    /\ ast[2].title = NoTitle
    /\ result[run].via = "next"

\* C2: when the transformer has completed, a matched link whose fetch
\* returned a status other than 200 has its title unchanged and still
\* carrying the marker, had no extraction started, and has exactly one error
\* entry, whose message contains the status text.
C2_FetchFailure ==
    (OneRun /\ pc[run] = "done") =>
        \A k \in Matching(ast0) :
            (tasks[run][k].fetch = "resolved" /\ tasks[run][k].status # 200) =>
                /\ ast[k].title = ast0[k].title
                /\ k \in Matching(ast)
                /\ tasks[run][k].promise = "none"
                /\ tasks[run][k].artifact # "piped"
                /\ tasks[run][k].destinationDir = << >>
                /\ Cardinality(NewEntries(k, "message")) = 1
                /\ NewEntries(k, "info") = {}
                /\ \A i \in NewEntries(k, "message") :
                       Contains(messages[i].message, StatusText(tasks[run][k].status))

\* C2 witness: the transformer completed after a 404 for its only link.
C2_Witness ==
    /\ OneRun
    /\ pc[run] = "done"
    /\ Len(ast) = 1
    /\ tasks[run][1].fetch = "resolved"
    /\ tasks[run][1].status = 404
    /\ Len(messages) = 1
    /\ Contains(messages[1].message, <<"Not Found">>)

\* C3: when the transformer has completed, a matched link whose fetch
\* returned 200 and whose extraction succeeded has an empty title, its
\* archive extracted into the resolved destination directory, exactly one
\* info entry `artifacts fetched from {projectId} {jobName}` at its position,
\* and no error entry.
C3_Success ==
    (OneRun /\ pc[run] = "done") =>
        \A k \in Matching(ast0) :
            (tasks[run][k].fetch = "resolved" /\ tasks[run][k].status = 200
                 /\ tasks[run][k].promise = "resolved") =>
                /\ ast[k].title = << >>
                /\ [path |-> ResolvedDir, artifact |-> k] \in disk
                /\ Cardinality(NewEntries(k, "info")) = 1
                /\ NewEntries(k, "message") = {}
                /\ \A i \in NewEntries(k, "info") :
                       /\ messages[i].message =
                              <<"artifacts fetched from ">> \o tasks[run][k].projectId
                                  \o <<" ">> \o tasks[run][k].jobName
                       /\ messages[i].source = <<"remark-gitlab-artifact">>
                       /\ ast0[k].title = <<"gitlab-artifact", "|", "1095", "|", "build:docs">>
                              => messages[i].message =
                                     <<"artifacts fetched from ", "1095", " ", "build:docs">>

\* C3 witness: the transformer completed after fetching and extracting the
\* artifact of `gitlab-artifact|1095|build:docs` into the override directory.
C3_Witness ==
    /\ OneRun
    /\ pc[run] = "done"
    /\ Len(ast) = 1
    /\ ast0[1].title = <<"gitlab-artifact", "|", "1095", "|", "build:docs">>
    /\ ast[1].title = << >>
    /\ data = <<"/out">>
    /\ disk = {[path |-> <<"/out">>, artifact |-> 1]}
    /\ Len(messages) = 1
    /\ messages[1].method = "info"

\* C4: the transformer never fails its caller.  Whatever the visitor, the
\* fetches, the extractions and the report's info and message do, throwing
\* included, no fault surfaces in the host process, entries once recorded
\* stay in the report, and when the transformer completes with a
\* continuation that returns, its own promise is fulfilled, it has passed no
\* error (next was called with null, or the tree was returned) and it has
\* handed over the tree as it stands.
C4_NeverFailsHost ==
    [][ /\ host' = "running"
        /\ IsPrefix(messages, messages')
        /\ \A r \in 1..run' :
               (pc'[r] = "done" /\ result'[r].next \in {"none", "returns"}) =>
                   /\ result'[r].promise = "fulfilled"
                   /\ \/ result'[r].via = "next" /\ result'[r].error = "null"
                      \/ result'[r].via = "return" /\ result'[r].error = "none"
                   /\ (r > run \/ pc[r] # "done") => result'[r].tree = ast' ]_vars

\* C5: when the transformer has completed on a document with N matched
\* links, the report holds exactly N new entries, exactly one for each matched
\* link, at that link's position, whatever the order in which the tasks
\* completed.
C5_OneEntryPerLink ==
    (OneRun /\ pc[run] = "done") =>
        /\ Len(messages) - messages0 = Cardinality(Matching(ast0))
        /\ \A k \in Matching(ast0) :
               Cardinality(NewEntries(k, "info") \cup NewEntries(k, "message")) = 1

\* C5 witness: two matched links, the second completed first; one succeeded
\* and one failed.
C5_Witness ==
    /\ OneRun
    /\ pc[run] = "done"
    /\ Cardinality(Matching(ast0)) = 2
    /\ Len(messages) = 2
    /\ messages[1].position = 2
    /\ messages[2].position = 1
    /\ messages[1].method # messages[2].method

\* Whether a title carrying the marker lacks one of the two segments that
\* follow it: no delimiter comes after the marker.
Malformed(title) ==
    /\ title # NoTitle
    /\ \E i \in 1..(Len(title) - 1) :
           /\ title[i] = "gitlab-artifact" /\ title[i + 1] = "|"
           /\ \A j \in (i + 2)..Len(title) : title[j] # "|"

\* C6: a link whose title is a reference missing one of its two trailing
\* segments is no match: no fetch request is made for it, no entry is
\* appended for it and its title stays as it was.
C6_MalformedIsNoMatch ==
    \A k \in 1..Len(ast0) :
        (OneRun /\ Malformed(ast0[k].title)) =>
            /\ NewRequests(k) = {}
            /\ NewEntries(k, "info") = {}
            /\ NewEntries(k, "message") = {}
            /\ ast[k].title = ast0[k].title

\* No code of task k of the latest invocation is ready to run: the task has
\* ended, or it waits at an await whose promise has not settled.
AtRest(k) ==
    /\ tasks[run][k].state = "fetching" => tasks[run][k].fetch = "pending"
    /\ tasks[run][k].state = "extracting" => tasks[run][k].promise = "pending"

\* C7: a matched link whose fetch failed with a transport error, or whose
\* extraction met an I/O error (on the artifact stream or in the unzip
\* stream), has its task ended with exactly one error entry at its position
\* and its title unmodified, as soon as the task's code has run.
C7_IoFailureReported ==
    OneRun =>
        \A k \in Matching(ast0) :
            (/\ ~ Malformed(ast0[k].title)
             /\ AtRest(k)
             /\ \/ tasks[run][k].fetch = "rejected"
                \/ tasks[run][k].promise = "rejected"
                \/ (tasks[run][k].artifact = "errored"
                       /\ tasks[run][k].promise = "pending")) =>
                /\ tasks[run][k].state = "fulfilled"
                /\ Cardinality(NewEntries(k, "message")) = 1
                /\ NewEntries(k, "info") = {}
                /\ ast[k].title = ast0[k].title

\* The entry and the title a link ends with, as its own fetch and extraction
\* results alone determine them.
OwnEntry(k) ==
    LET projectId == ProjectIdOf(ast0[k].title)
        jobName == JobNameOf(ast0[k].title)
        text ==
            IF tasks[run][k].fetch = "rejected"
            THEN <<"request to ">> \o Url(ApiBase, options.gitlabApiToken, projectId, jobName)
                     \o <<" failed, reason: socket hang up">>
            ELSE IF tasks[run][k].status # 200
            THEN StatusText(tasks[run][k].status) \o <<" from ">>
                     \o Url(ApiBase, options.gitlabApiToken, projectId, jobName) \o <<".">>
            ELSE IF tasks[run][k].promise = "resolved"
            THEN <<"artifacts fetched from ">> \o projectId \o <<" ">> \o jobName
            ELSE <<"invalid archive">>
    IN  [method |-> IF tasks[run][k].promise = "resolved" THEN "info" ELSE "message",
         message |-> text,
         position |-> ast0[k].position,
         source |-> <<"remark-gitlab-artifact">>]

OwnTitle(k) ==
    IF tasks[run][k].promise = "resolved" THEN << >> ELSE ast0[k].title

\* C8: failures are scoped to their own link.  In every interleaving, the
\* title and the entry of a matched link whose task has ended are those its
\* own fetch and extraction results determine, whatever the other links'
\* tasks did, and a link whose task has not ended has its title and no entry.
C8_FailureScoped ==
    OneRun =>
        \A k \in Matching(ast0) :
            IF tasks[run][k].state = "fulfilled"
            THEN /\ ast[k].title = OwnTitle(k)
                 /\ { messages[i] : i \in NewEntries(k, "info") \cup NewEntries(k, "message") }
                        = { OwnEntry(k) }
            ELSE /\ ast[k].title = ast0[k].title
                 /\ NewEntries(k, "info") \cup NewEntries(k, "message") = {}

\* C8 witness: of two matched links the first failed with a 404 and the
\* second was fetched, extracted and cleared.
C8_Witness ==
    /\ OneRun
    /\ Len(ast) = 2
    /\ tasks[run][1].state = "fulfilled" /\ tasks[run][1].status = 404
    /\ tasks[run][2].state = "fulfilled" /\ tasks[run][2].promise = "resolved"
    /\ ast[1].title = ast0[1].title
    /\ ast[2].title = << >>
    /\ messages[1].method = "message"
    /\ messages[2].method = "info"

\* C9: the join is an all-complete join and Done is terminal.  An
\* invocation completes only when every task it launched has ended, and once
\* it has completed no title changes and no entry is appended.
C9_AllCompleteJoin ==
    [][ /\ \A r \in 1..run' :
               pc'[r] = "done" =>
                   \A k \in Range(nodes'[r]) :
                       tasks'[r][k].state \in {"fulfilled", "rejected"}
        /\ (OneRun /\ pc[run] = "done" /\ run' = run) =>
               (ast' = ast /\ messages' = messages) ]_vars

\* C9 witness: the transformer completed with two launched tasks, one failed
\* and one succeeded.
C9_Witness ==
    /\ OneRun
    /\ pc[run] = "done"
    /\ Len(nodes[run]) = 2
    /\ tasks[run][1].state = "fulfilled" /\ tasks[run][1].promise = "resolved"
    /\ tasks[run][2].state = "fulfilled" /\ tasks[run][2].fetch = "rejected"

\* Every task of invocation r fetched and extracted its artifact and ended.
Successful(r) ==
    \A k \in Range(nodes[r]) :
        tasks[r][k].state = "fulfilled" /\ tasks[r][k].promise = "resolved"

\* C10: an invocation on a document whose matched links were all cleared by
\* an earlier, successful invocation makes no fetch request, appends no entry
\* and leaves the tree as it found it.
C10_Idempotent ==
    (run >= 2 /\ solo /\ Successful(run - 1)) =>
        /\ Len(requests) = requests0
        /\ Len(messages) = messages0
        /\ ast = ast0

\* C10 witness: a second invocation completed on a document whose two links
\* were fetched and cleared by the first.
C10_Witness ==
    /\ run = 2
    /\ solo
    /\ Successful(1)
    /\ pc[2] = "done"
    /\ Len(requests) = 2
    /\ Len(messages) = 2
    /\ \A k \in 1..Len(ast) : ast[k].title = << >>

\* C11: every extraction of a document writes into the destinationDir of
\* the document's metadata when that override is present, and into the
\* document's own directory when it is absent or empty.
C11_DestinationResolution ==
    /\ \A e \in disk :
           e.path = (IF data = Undefined \/ data = << >> THEN <<"/docs">> ELSE data)
    /\ \A r \in 1..run : \A k \in 1..Len(ast) :
           tasks[r][k].promise # "none" =>
               tasks[r][k].destinationDir =
                   (IF data = Undefined \/ data = << >> THEN <<"/docs">> ELSE data)

\* C11 witness: with the override "/out" an archive was extracted into
\* "/out" and nothing into the document's own directory.
C11_Witness ==
    /\ data = <<"/out">>
    /\ \E e \in disk : e.path = <<"/out">>
    /\ \A e \in disk : e.path # <<"/docs">>
    /\ \E k \in 1..Len(ast) : tasks[1][k].promise = "resolved"

\* C12: the completion signal of extractArtifact is settled exactly once per
\* call.  Whatever 'finish' and 'error' events the streams emit, a settled
\* promise keeps its outcome, success is signalled only with the archive
\* written, and a failure met during the extraction, in the unzip stream or
\* in the artifact stream, is signalled to the task.
C12_SettledOnce ==
    [][ \A r \in 1..run : \A k \in 1..Len(ast) :
          /\ tasks[r][k].promise \in {"resolved", "rejected"} =>
                 tasks'[r][k].promise = tasks[r][k].promise
          /\ tasks'[r][k].promise = "resolved" =>
                 [path |-> tasks'[r][k].destinationDir, artifact |-> k] \in disk'
          /\ (tasks[r][k].promise = "pending"
                  /\ tasks[r][k].artifact = "piped"
                  /\ tasks'[r][k].artifact = "errored") =>
                 tasks'[r][k].promise = "rejected"
      ]_vars

\* C13 as stated: the directory is resolved once per document, before any
\* extraction of the document begins: when a task resolves it, no task's
\* extraction has started, and all tasks extract into the same directory.
C13_ResolvedBeforeAnyExtraction ==
    [][ (OneRun /\ run' = run) =>
          \A k \in 1..Len(ast) :
            (tasks[run][k].promise = "none" /\ tasks'[run][k].promise # "none") =>
                /\ \A j \in 1..Len(ast) : tasks[run][j].promise = "none"
                /\ \A j \in 1..Len(ast) :
                       tasks'[run][j].promise # "none" =>
                           tasks'[run][j].destinationDir = tasks'[run][k].destinationDir
      ]_vars

\* C13 amended: the directory is resolved once per task, after that task's
\* fetch returned 200 and before that task's own extraction begins, possibly
\* while other tasks are already extracting; all tasks of one invocation
\* resolve and extract into the same directory.
C13_ResolvedPerTask ==
    [][ (OneRun /\ run' = run) =>
          \A k \in 1..Len(ast) :
            /\ (tasks[run][k].promise = "none" /\ tasks'[run][k].promise # "none") =>
                   /\ tasks[run][k].state = "fetching"
                   /\ tasks[run][k].destinationDir = << >>
                   /\ tasks[run][k].status = 200
                   /\ tasks'[run][k].destinationDir # << >>
                   /\ \A j \in 1..Len(ast) :
                          tasks'[run][j].promise # "none" =>
                              tasks'[run][j].destinationDir = tasks'[run][k].destinationDir
            /\ tasks[run][k].destinationDir # << >> =>
                   tasks'[run][k].destinationDir = tasks[run][k].destinationDir
      ]_vars

\* C13 witness: with an override, the second task resolved the directory and
\* is extracting after the first task's extraction had already finished.
C13_Witness ==
    /\ OneRun
    /\ Len(ast) = 2
    /\ data = <<"/out">>
    /\ tasks[run][1].promise = "resolved"
    /\ tasks[run][2].promise = "pending"
    /\ tasks[run][1].destinationDir = <<"/out">>
    /\ tasks[run][2].destinationDir = <<"/out">>

\* The part of a title that follows its first marker `gitlab-artifact|`.
AfterMarker(title) ==
    LET i == CHOOSE i \in 1..(Len(title) - 1) :
                 /\ title[i] = "gitlab-artifact" /\ title[i + 1] = "|"
                 /\ \A j \in 1..(i - 1) :
                        ~ (title[j] = "gitlab-artifact" /\ title[j + 1] = "|")
    IN  SubSeq(title, i + 2, Len(title))

\* C14: for every link the scanner accepts, the projectId and the jobName
\* of the fetch request and of the info message are the two segments that
\* follow the marker in the title, wherever the marker stands.
C14_FieldsFollowMarker ==
    OneRun =>
        \A k \in Matching(ast0) :
            ~ Malformed(ast0[k].title) =>
                LET after == Split(AfterMarker(ast0[k].title))
                IN  /\ \A i \in NewRequests(k) :
                           requests[i].url =
                               <<"https://src.temando.io", "/api/v4/projects/">>
                                   \o after[1]
                                   \o <<"/jobs/artifacts/master/download?job=">>
                                   \o after[2]
                    /\ \A i \in NewEntries(k, "info") :
                           messages[i].message =
                               <<"artifacts fetched from ">> \o after[1]
                                   \o <<" ">> \o after[2]

\* Whether a title is a reference: non-empty, carrying the marker followed by
\* exactly two segments.
IsReference(title) ==
    /\ title # NoTitle
    /\ \E i \in 1..(Len(title) - 1) :
           /\ title[i] = "gitlab-artifact" /\ title[i + 1] = "|"
           /\ Cardinality({ j \in (i + 2)..Len(title) : title[j] = "|" }) = 1

\* C15: the scanner yields exactly the links whose title is a reference
\* (the marker followed by exactly two segments), each once and in visiting
\* order, and excludes every other link; scanning changes no node and appends
\* no entry.
C15_ScannerFilter ==
    OneRun =>
        /\ LET isRef(k) == IsReference(ast0[k].title)
           IN  nodes[run] = SelectSeq([k \in 1..Len(ast0) |-> k], isRef)
        /\ (\A k \in 1..Len(ast) : tasks[run][k].state \in {"none", "fetching"})
               => (ast = ast0 /\ Len(messages) = messages0)

\* C16: within one invocation every matched link causes exactly one fetch
\* request and at most one extraction, which starts only after the link's own
\* fetch returned 200; after a failed fetch no extraction is started, and
\* after a failed fetch or a failed extraction the task ends without another
\* request.
C16_OneFetchNoRetry ==
    run >= 1 =>
        \A k \in 1..Len(ast) :
            /\ Cardinality(NewRequests(k)) = (IF k \in Matching(ast0) THEN 1 ELSE 0)
            /\ tasks[run][k].promise # "none" =>
                   /\ tasks[run][k].fetch = "resolved"
                   /\ tasks[run][k].status = 200
                   /\ tasks[run][k].got = "resolved"
            /\ (tasks[run][k].fetch = "rejected"
                    \/ (tasks[run][k].fetch = "resolved" /\ tasks[run][k].status # 200)) =>
                   /\ tasks[run][k].state \in {"fetching", "fulfilled"}
                   /\ tasks[run][k].promise = "none"
                   /\ tasks[run][k].artifact # "piped"
            /\ tasks[run][k].promise = "rejected" =>
                   tasks[run][k].state \in {"extracting", "fulfilled"}

\* C16 witness: of two matched links one was fetched with 200 and is being
\* extracted, the other's fetch failed with 404 and its task has ended; two
\* requests were made.
C16_Witness ==
    /\ run = 1
    /\ Len(ast) = 2
    /\ Len(requests) = 2
    /\ tasks[1][1].status = 200 /\ tasks[1][1].promise = "pending"
    /\ tasks[1][2].status = 404 /\ tasks[1][2].state = "fulfilled"

\* C17: in every reachable state a matched node's title is empty only if its
\* fetch returned 200 and its extraction signalled success, and exactly then
\* the report holds the node's info entry; no matched node has both an info
\* entry and an error entry.
C17_ClearedIffInfo ==
    OneRun =>
        \A k \in Matching(ast0) :
            /\ ast[k].title = << >> =>
                   /\ tasks[run][k].fetch = "resolved" /\ tasks[run][k].status = 200
                   /\ tasks[run][k].promise = "resolved"
            /\ ast[k].title = << >> <=> Cardinality(NewEntries(k, "info")) = 1
            /\ NewEntries(k, "info") = {} \/ NewEntries(k, "message") = {}
            /\ Cardinality(NewEntries(k, "info")) <= 1

\* C17 witness: while the second task is still extracting, the first node is
\* cleared and has its info entry.
C17_Witness ==
    /\ OneRun
    /\ pc[run] = "awaiting"
    /\ Len(ast) = 2
    /\ ast[1].title = << >>
    /\ Len(messages) = 1 /\ messages[1].method = "info" /\ messages[1].position = 1
    /\ tasks[run][2].promise = "pending"
    /\ ast[2].title = ast0[2].title

\* The fetch or the extraction of task k of invocation r has not settled.
Unsettled(r, k) ==
    /\ r <= run
    /\ k <= Len(ast)
    /\ tasks[r][k].fetch = "pending" \/ tasks[r][k].promise = "pending"

\* Task k of invocation r has not ended.
InFlight(r, k) ==
    r <= run /\ k <= Len(ast) /\ tasks[r][k].state \in {"fetching", "extracting"}

\* C18: if every launched fetch and every started extraction eventually
\* settles, every invocation eventually completes, and it hands the tree over
\* once; without any timeout it stays waiting for as long as one of its
\* tasks' fetch or extraction has not settled.  An unheard 'error' of a
\* response body ends the host while invocations wait, with every fetch and
\* extraction settled.
C18_Terminates ==
    /\ (\A r \in 1..MaxRuns : \A k \in 1..MaxLinks : []<>(~ Unsettled(r, k)))
           => \A r \in 1..MaxRuns :
                  (r <= run /\ pc[r] = "awaiting") ~> (r <= run /\ pc[r] = "done")
    /\ [][ \A r \in 1..run :
             /\ pc'[r] = "done" =>
                    \A k \in 1..Len(ast) : ~ (Unsettled(r, k) \/ InFlight(r, k))'
             /\ result[r] # NoResult => result'[r] = result[r] ]_vars

\* C19: the token travels in the PRIVATE-TOKEN header only: every request
\* carries it there, no request URL and no entry of the report (info or
\* error, the request URL of a failed fetch included) contains it; and the
\* run that differs in the token only, with the same responses, has the
\* same report.
C19_TokenNotLogged ==
    /\ \A i \in 1..Len(requests) :
           /\ requests[i].headers = [PRIVATE_TOKEN |-> options.gitlabApiToken]
           /\ \A t \in Tokens : ~ Contains(requests[i].url, t)
    /\ \A i \in 1..Len(messages) :
           /\ \A t \in Tokens : ~ Contains(messages[i].message, t)
           /\ \A t \in Tokens : ~ Contains(messages[i].source, t)
    /\ twin = messages

\* C19 witness: under the second token, a fetch that failed with a status
\* was reported with its request URL, and a successful one with its info
\* entry.
C19_Witness ==
    /\ options.gitlabApiToken # Token
    /\ Len(requests) = 2
    /\ Len(messages) = 2
    /\ Len(twin) = 2
    /\ \E i \in 1..2 : Contains(messages[i].message, requests[1].url)
    /\ \E i \in 1..2 : messages[i].method = "info"

====
